---- MODULE Spec2Model ----
(***************************************************************************)
(* Model of the processed-agent-data service (src/main.py): the store      *)
(* table, the WebSocket subscription registry, the Create request with its *)
(* per-item insert / commit / broadcast, and the Read / List / Update /    *)
(* Delete requests.                                                        *)
(*                                                                         *)
(* Scheduling: create_processed_agent_data and websocket_endpoint are      *)
(* coroutines of one event loop, so a websocket handler runs only while no *)
(* Create is running or while a Create is suspended in an `await` of a     *)
(* send.  The Read / List / Update / Delete endpoints are plain functions  *)
(* run in worker threads, so their store statements interleave freely      *)
(* with everything else.                                                   *)
(***************************************************************************)
EXTENDS Integers, Sequences, FiniteSets, TLC

VARIABLES
    rows,           \* the committed table: id -> stored row
    nextId,         \* the primary-key sequence of the table
    dbTz,           \* the store session's time zone (UTC offset, hours)
    subscriptions,  \* main.py:42, user_id -> set of websockets
    ws,             \* each websocket's connection state and user id
    inbox,          \* what each websocket's peer has received
    cr,             \* the Create request being handled
    cl              \* the Read / List / Update / Delete requests

vars == <<rows, nextId, dbTz, subscriptions, ws, inbox, cr, cl>>

----------------------------------------------------------------------------
(* Bounds *)

MaxHandles == 2     \* websockets ever opened
MaxRows == 2        \* rows ever inserted

Handles == 1..MaxHandles
Users == {1, 2}
Ids == 1..MaxRows
Clients == {1}
Workers == {1, 2}

----------------------------------------------------------------------------
(* Request payloads: JSON values as they arrive *)

JStr(s) == [t |-> "str", v |-> s]
JNum(s) == [t |-> "num", v |-> s]

\* A well-formed reading; user_id and the road state vary with the user.
Reading(u, state, stamp) ==
    [road_state |-> state, user_id |-> u,
     x |-> JNum(IF u = 1 THEN "0.1" ELSE "1.1"),
     y |-> JNum(IF u = 1 THEN "0.2" ELSE "1.2"),
     z |-> JNum(IF u = 1 THEN "9.8" ELSE "9.9"),
     latitude |-> JNum(IF u = 1 THEN "50.45" ELSE "51.45"),
     longitude |-> JNum(IF u = 1 THEN "30.52" ELSE "31.52"),
     timestamp |-> JStr(stamp)]

StampOf(u) ==
    IF u = 1 THEN "2024-01-01T00:00:00"
    ELSE IF u = 2 THEN "2024-01-01T00:00:00Z"
    ELSE "2024-01-01T02:00:00+02:00"

GoodPayloads == { Reading(u, JStr(IF u = 1 THEN "normal" ELSE "bumpy"), StampOf(u)) : u \in Users }

EmptyStatePayload == Reading(1, JStr(""), StampOf(1))

\* road_state "" together with x "not-a-number"
BadExamplePayload == [EmptyStatePayload EXCEPT !.x = JStr("not-a-number")]

Payloads == GoodPayloads \cup {EmptyStatePayload, BadExamplePayload}

\* The bodies of a Create request: one item, or two.
BatchSizes == {1, 2}
Batches == UNION { [1..n -> Payloads] : n \in BatchSizes }

----------------------------------------------------------------------------
(* Record schema and validation *)

FloatLiterals ==
    {"0.1", "0.2", "9.8", "1.1", "1.2", "9.9", "50.45", "51.45", "30.52", "31.52", "5"}

\* pydantic `str`: a JSON string of any length; a JSON number is not coerced.
RoadStateOk(j) == j.t = "str"

\* pydantic `float`: a JSON number, or a JSON string holding a number literal.
FloatOk(j) == j.v \in FloatLiterals

\* ISO-8601 text -> (wall clock in hours since 2024-01-01T00:00:00, aware?, UTC offset)
ParseTimestamp(s) ==
    CASE s = "2024-01-01T00:00:00" -> [ok |-> TRUE, wall |-> 0, aware |-> FALSE, off |-> 0]
      [] s = "2024-01-01T00:00:00Z" -> [ok |-> TRUE, wall |-> 0, aware |-> TRUE, off |-> 0]
      [] s = "2024-01-01T02:00:00+02:00" -> [ok |-> TRUE, wall |-> 2, aware |-> TRUE, off |-> 2]
      [] OTHER -> [ok |-> FALSE, wall |-> 0, aware |-> FALSE, off |-> 0]

TimestampOk(j) == j.t = "str" /\ ParseTimestamp(j.v).ok

AgentDataOk(p) ==
    /\ p.user_id \in Int
    /\ FloatOk(p.x) /\ FloatOk(p.y) /\ FloatOk(p.z)
    /\ FloatOk(p.latitude) /\ FloatOk(p.longitude)
    /\ TimestampOk(p.timestamp)

\* ProcessedAgentData: road_state: str, agent_data: AgentData
ProcessedAgentDataOk(p) == RoadStateOk(p.road_state) /\ AgentDataOk(p)

\* The validated model object the handlers receive.
Timestamp(wall, aware, off) == [wall |-> wall, aware |-> aware, off |-> off]

ProcessedAgentData(p) ==
    LET ts == ParseTimestamp(p.timestamp.v) IN
    [road_state |-> p.road_state.v, user_id |-> p.user_id,
     x |-> p.x.v, y |-> p.y.v, z |-> p.z.v,
     latitude |-> p.latitude.v, longitude |-> p.longitude.v,
     timestamp |-> Timestamp(ts.wall, ts.aware, ts.off)]

NoItem ==
    [road_state |-> "", user_id |-> 0, x |-> "", y |-> "", z |-> "",
     latitude |-> "", longitude |-> "", timestamp |-> Timestamp(0, FALSE, 0)]

----------------------------------------------------------------------------
(* The store: table processed_agent_data *)

\* A DateTime column holds no time zone: an aware value is converted to the
\* session's local time and its offset is dropped; a naive value is kept.
StoreTimestamp(ts, tz) ==
    IF ts.aware THEN Timestamp(ts.wall - ts.off + tz, FALSE, 0) ELSE ts

\* insert().values(...) / update().values(...): the row written for `item`.
RowValues(item, id, tz) ==
    [id |-> id, road_state |-> item.road_state, user_id |-> item.user_id,
     x |-> item.x, y |-> item.y, z |-> item.z,
     latitude |-> item.latitude, longitude |-> item.longitude,
     timestamp |-> StoreTimestamp(item.timestamp, tz)]

\* ProcessedAgentDataInDB(**row._asdict())
ProcessedAgentDataInDB(row) == row

\* The table after INSERT of `row` / DELETE WHERE id = i.
Inserted(table, row) == [i \in DOMAIN table \cup {row.id} |-> IF i = row.id THEN row ELSE table[i]]
Deleted(table, i) == [j \in DOMAIN table \ {i} |-> table[j]]

----------------------------------------------------------------------------
(* Subscription registry and broadcast *)

\* Python values handed to json.dumps: a dict of plain values, or the object
\* db.execute(insert) returns, which is a cursor result and not the inserted row.
Dict(row) == [type |-> "dict", value |-> row]
CursorResult(id) == [type |-> "CursorResult", value |-> id]

\* json.dumps(data, default=str): every object is encoded, nothing raises.
JsonDumpsDefaultStr(data) == [ok |-> TRUE, text |-> [type |-> "json", value |-> data.value]]

\* json.dumps: the JSON text of a dict; any other object raises TypeError.
JsonDumps(data) == [ok |-> data.type = "dict", text |-> [type |-> "json", value |-> data.value]]

\* The event loop can run a websocket handler: no Create is running, or the
\* running Create is suspended awaiting a send it has started.
LoopFree == cr.pc = "idle" \/ (cr.pc = "broadcast" /\ cr.visited # {})

Registered(u) == IF u \in DOMAIN subscriptions THEN subscriptions[u] ELSE {}

\* websocket_endpoint, up to the receive loop: accept and register.  Websockets
\* are numbered in the order they connect.
websocket_connect(h, u) ==
    /\ ws[h].state = "new"
    /\ \A k \in Handles : k < h => ws[k].state # "new"
    /\ LoopFree
    /\ subscriptions' = [k \in DOMAIN subscriptions \cup {u} |->
                            IF k = u THEN Registered(u) \cup {h} ELSE subscriptions[k]]
    /\ ws' = [ws EXCEPT ![h] = [state |-> "open", user |-> u]]
    /\ UNCHANGED <<rows, nextId, dbTz, inbox, cr, cl>>

\* A disconnect handler that leaves the websocket in its user's set.
websocket_disconnect_keeps(h) ==
    /\ ws[h].state = "open"
    /\ LoopFree
    /\ ws' = [ws EXCEPT ![h].state = "closed"]
    /\ UNCHANGED <<rows, nextId, dbTz, subscriptions, inbox, cr, cl>>

\* websocket_endpoint: receive_text raises WebSocketDisconnect once the peer has
\* closed; except WebSocketDisconnect: remove the websocket.
websocket_disconnect(h) ==
    /\ ws[h].state = "open"
    /\ LoopFree
    /\ subscriptions' = [subscriptions EXCEPT ![ws[h].user] = @ \ {h}]
    /\ ws' = [ws EXCEPT ![h].state = "closed"]
    /\ UNCHANGED <<rows, nextId, dbTz, inbox, cr, cl>>

----------------------------------------------------------------------------
(* Create *)

\* The item is done: the next item of the batch, or the 200 response.
ItemDone(c) ==
    IF Len(c.todo) > 1
    THEN [c EXCEPT !.pc = "insert", !.todo = Tail(c.todo), !.visited = {}, !.size = 0]
    ELSE [c EXCEPT !.pc = "idle", !.todo = <<>>, !.resp = "200", !.visited = {}, !.size = 0]

\* An error handler that rolls back and goes on with the next item.
RaisedAndSkipped(c, err) == ItemDone(c)

\* An exception inside create's try block, after the commit: db.rollback() finds
\* nothing pending, and raise e ends the request with a server error.
Raised(c, err) ==
    [c EXCEPT !.pc = "idle", !.resp = "500", !.err = err, !.visited = {}, !.size = 0]

\* POST /processed_agent_data/: the body is validated as List[ProcessedAgentData]
\* before the handler runs; an invalid body is answered 422.
create_request(b) ==
    /\ cr.pc = "idle"
    /\ IF \A i \in DOMAIN b : ProcessedAgentDataOk(b[i])
       THEN cr' = [pc |-> "insert", todo |-> [i \in DOMAIN b |-> ProcessedAgentData(b[i])],
                   item |-> NoItem, id |-> 0, visited |-> {}, size |-> 0,
                   resp |-> "none", err |-> "none"]
       ELSE cr' = [pc |-> "idle", todo |-> <<>>,
                   item |-> NoItem, id |-> 0, visited |-> {}, size |-> 0,
                   resp |-> "422", err |-> "ValidationError"]
    /\ UNCHANGED <<rows, nextId, dbTz, subscriptions, ws, inbox, cl>>

\* result = db.execute(dat): the row is written in the open transaction and
\* takes the next id of the sequence.
create_insert ==
    /\ cr.pc = "insert"
    /\ nextId <= MaxRows
    /\ cr' = [cr EXCEPT !.pc = "commit", !.item = Head(cr.todo), !.id = nextId,
                        !.visited = {}, !.size = 0]
    /\ nextId' = nextId + 1
    /\ UNCHANGED <<rows, dbTz, subscriptions, ws, inbox, cl>>

\* A failing commit that leaves the inserted row in the table.
create_store_fails_keeps_row ==
    /\ cr.pc \in {"insert", "commit"}
    /\ cr' = Raised(cr, "PersistenceError")
    /\ rows' = IF cr.pc = "commit" THEN Inserted(rows, RowValues(cr.item, cr.id, dbTz)) ELSE rows
    /\ UNCHANGED <<nextId, dbTz, subscriptions, ws, inbox, cl>>

\* db.execute / db.commit raises: except: db.rollback(); raise e.
create_store_fails ==
    /\ cr.pc \in {"insert", "commit"}
    /\ cr' = Raised(cr, "PersistenceError")
    /\ UNCHANGED <<rows, nextId, dbTz, subscriptions, ws, inbox, cl>>

\* A Create that goes on to the broadcast with the row still uncommitted.
create_commit_missing ==
    /\ cr.pc = "commit"
    /\ cr' = [cr EXCEPT !.pc = "broadcast"]
    /\ UNCHANGED <<rows, nextId, dbTz, subscriptions, ws, inbox, cl>>

\* db.commit(): the row becomes part of the table.
create_commit ==
    /\ cr.pc = "commit"
    /\ rows' = Inserted(rows, RowValues(cr.item, cr.id, dbTz))
    /\ cr' = [cr EXCEPT !.pc = "broadcast"]
    /\ UNCHANGED <<nextId, dbTz, subscriptions, ws, inbox, cl>>

\* A broadcast without the test `if user_id in subscriptions`: a user id that
\* was never subscribed raises KeyError.
send_data_unguarded ==
    /\ cr.pc = "broadcast"
    /\ LET u == cr.item.user_id
           S == Registered(u)
           first == cr.visited = {}
           size0 == IF first THEN Cardinality(S) ELSE cr.size
       IN
       IF u \notin DOMAIN subscriptions
       THEN cr' = Raised(cr, "KeyError") /\ UNCHANGED inbox
       ELSE IF Cardinality(S) # size0
       THEN cr' = Raised(cr, "RuntimeError") /\ UNCHANGED inbox
       ELSE IF S \ cr.visited = {}
       THEN cr' = ItemDone(cr) /\ UNCHANGED inbox
       ELSE \E h \in S \ cr.visited :
              LET enc == JsonDumps(CursorResult(cr.id)) IN
              IF ~enc.ok
              THEN cr' = Raised(cr, "TypeError") /\ UNCHANGED inbox
              ELSE /\ cr' = [cr EXCEPT !.visited = @ \cup {h}, !.size = size0]
                   /\ inbox' = [inbox EXCEPT ![h] = Append(@, enc.text)]
    /\ UNCHANGED <<rows, nextId, dbTz, subscriptions, ws, cl>>

\* A broadcast whose failure takes the item's row with it, as when the commit
\* comes after the broadcast and the handler's rollback undoes the insert.
send_data_failure_undoes ==
    /\ cr.pc = "broadcast"
    /\ IF Registered(cr.item.user_id) = {}
       THEN cr' = ItemDone(cr) /\ UNCHANGED rows
       ELSE cr' = Raised(cr, "TypeError") /\ rows' = Deleted(rows, cr.id)
    /\ UNCHANGED <<nextId, dbTz, subscriptions, ws, inbox, cl>>

\* send_data_to_subscribers(item.agent_data.user_id, result): one turn of the
\* loop `for websocket in subscriptions[user_id]`, run inside create's try block.
send_data_to_subscribers ==
    /\ cr.pc = "broadcast"
    /\ LET u == cr.item.user_id
           S == Registered(u)
           first == cr.visited = {}
           size0 == IF first THEN Cardinality(S) ELSE cr.size
       IN
       IF u \notin DOMAIN subscriptions
       THEN cr' = ItemDone(cr) /\ UNCHANGED inbox
       ELSE IF Cardinality(S) # size0          \* Set changed size during iteration
       THEN cr' = Raised(cr, "RuntimeError") /\ UNCHANGED inbox
       ELSE IF S \ cr.visited = {}
       THEN cr' = ItemDone(cr) /\ UNCHANGED inbox
       ELSE \E h \in S \ cr.visited :
              LET enc == JsonDumps(CursorResult(cr.id)) IN
              IF ~enc.ok
              THEN cr' = Raised(cr, "TypeError") /\ UNCHANGED inbox
              ELSE /\ cr' = [cr EXCEPT !.visited = @ \cup {h}, !.size = size0]
                   /\ inbox' = [inbox EXCEPT ![h] = Append(@, enc.text)]
    /\ UNCHANGED <<rows, nextId, dbTz, subscriptions, ws, cl>>

----------------------------------------------------------------------------
(* Read, List, Update, Delete *)

NoBody == {}

\* select(...).where(id == ...).fetchone(), then 404 or the record.
ReadAnswer(table, id) ==
    IF id \notin DOMAIN table
    THEN [resp |-> "404", body |-> NoBody]
    ELSE [resp |-> "200", body |-> {ProcessedAgentDataInDB(table[id])}]

\* The request is the Update this client was last answered 200 for, sent again.
Repeats(q, id, item) ==
    q.op = "update" /\ q.pc = "idle" /\ q.resp = "200" /\ q.id = id /\ q.item = item

Answer(c, op, id, resp, body) ==
    cl' = [cl EXCEPT ![c] = [op |-> op, pc |-> "idle", id |-> id, item |-> NoItem,
                             repeat |-> FALSE, resp |-> resp, body |-> body]]

\* GET /processed_agent_data/{id}
read_processed_agent_data(c, id) ==
    /\ cl[c].pc = "idle"
    /\ Answer(c, "read", id, ReadAnswer(rows, id).resp, ReadAnswer(rows, id).body)
    /\ UNCHANGED <<rows, nextId, dbTz, subscriptions, ws, inbox, cr>>

\* GET /processed_agent_data/
list_processed_agent_data(c) ==
    /\ cl[c].pc = "idle"
    /\ Answer(c, "list", 0, "200", { ProcessedAgentDataInDB(rows[i]) : i \in DOMAIN rows })
    /\ UNCHANGED <<rows, nextId, dbTz, subscriptions, ws, inbox, cr>>

\* An Update whose rowcount counts the rows the UPDATE changed, not the rows
\* it matched: writing a row the values it already holds counts as no row.
update_counts_changed_rows(c, id, p) ==
    /\ cl[c].pc = "idle"
    /\ IF ~ProcessedAgentDataOk(p)
       THEN Answer(c, "update", id, "422", NoBody) /\ UNCHANGED rows
       ELSE IF id \notin DOMAIN rows \/ rows[id] = RowValues(ProcessedAgentData(p), id, dbTz)
       THEN Answer(c, "update", id, "404", NoBody) /\ UNCHANGED rows
       ELSE /\ rows' = [rows EXCEPT ![id] = RowValues(ProcessedAgentData(p), id, dbTz)]
            /\ cl' = [cl EXCEPT ![c] = [op |-> "update", pc |-> "reselect", id |-> id,
                                        item |-> ProcessedAgentData(p),
                                        repeat |-> Repeats(cl[c], id, ProcessedAgentData(p)),
                                        resp |-> "none", body |-> NoBody]]
    /\ UNCHANGED <<nextId, dbTz, subscriptions, ws, inbox, cr>>

\* An Update whose UPDATE statement has no WHERE clause: every row is written.
update_every_row(c, id, p) ==
    /\ cl[c].pc = "idle"
    /\ IF ~ProcessedAgentDataOk(p)
       THEN Answer(c, "update", id, "422", NoBody) /\ UNCHANGED rows
       ELSE IF id \notin DOMAIN rows
       THEN Answer(c, "update", id, "404", NoBody) /\ UNCHANGED rows
       ELSE /\ rows' = [j \in DOMAIN rows |-> RowValues(ProcessedAgentData(p), j, dbTz)]
            /\ cl' = [cl EXCEPT ![c] = [op |-> "update", pc |-> "reselect", id |-> id,
                                        item |-> ProcessedAgentData(p),
                                        repeat |-> Repeats(cl[c], id, ProcessedAgentData(p)),
                                        resp |-> "none", body |-> NoBody]]
    /\ UNCHANGED <<nextId, dbTz, subscriptions, ws, inbox, cr>>

\* PUT /processed_agent_data/{id}: validation of the body, then the UPDATE and
\* its commit, then the rowcount test.
update_processed_agent_data(c, id, p) ==
    /\ cl[c].pc = "idle"
    /\ IF ~ProcessedAgentDataOk(p)
       THEN Answer(c, "update", id, "422", NoBody) /\ UNCHANGED rows
       ELSE IF id \notin DOMAIN rows
       THEN Answer(c, "update", id, "404", NoBody) /\ UNCHANGED rows
       ELSE /\ rows' = [rows EXCEPT ![id] = RowValues(ProcessedAgentData(p), id, dbTz)]
            /\ cl' = [cl EXCEPT ![c] = [op |-> "update", pc |-> "reselect", id |-> id,
                                        item |-> ProcessedAgentData(p),
                                        repeat |-> Repeats(cl[c], id, ProcessedAgentData(p)),
                                        resp |-> "none", body |-> NoBody]]
    /\ UNCHANGED <<nextId, dbTz, subscriptions, ws, inbox, cr>>

\* update: db.execute(dat) or db.commit() raises.  Nothing catches it: leaving
\* `with SessionLocal()` closes the session, which rolls the transaction back,
\* and the request is answered with a server error.
update_store_fails(c, id, p) ==
    /\ cl[c].pc = "idle"
    /\ ProcessedAgentDataOk(p)
    /\ Answer(c, "update", id, "500", NoBody)
    /\ UNCHANGED <<rows, nextId, dbTz, subscriptions, ws, inbox, cr>>

\* update: the second select, which fetches the updated row.
update_reselect(c) ==
    /\ cl[c].pc = "reselect"
    /\ LET id == cl[c].id IN
       IF id \notin DOMAIN rows
       THEN cl' = [cl EXCEPT ![c].pc = "idle", ![c].resp = "404"]
       ELSE cl' = [cl EXCEPT ![c].pc = "idle", ![c].resp = "200",
                             ![c].body = {ProcessedAgentDataInDB(rows[id])}]
    /\ UNCHANGED <<rows, nextId, dbTz, subscriptions, ws, inbox, cr>>

\* DELETE /processed_agent_data/{id}: the select that fetches the row.
delete_processed_agent_data(c, id) ==
    /\ cl[c].pc = "idle"
    /\ IF id \notin DOMAIN rows
       THEN Answer(c, "delete", id, "404", NoBody)
       ELSE cl' = [cl EXCEPT ![c] = [op |-> "delete", pc |-> "delete", id |-> id,
                                     item |-> NoItem, repeat |-> FALSE, resp |-> "none",
                                     body |-> {ProcessedAgentDataInDB(rows[id])}]]
    /\ UNCHANGED <<rows, nextId, dbTz, subscriptions, ws, inbox, cr>>

\* A Delete that answers without removing the row.
delete_commit_keeps(c) ==
    /\ cl[c].pc = "delete"
    /\ cl' = [cl EXCEPT ![c].pc = "idle", ![c].resp = "200"]
    /\ UNCHANGED <<rows, nextId, dbTz, subscriptions, ws, inbox, cr>>

\* delete: the DELETE and its commit; the row fetched before is returned.
delete_commit(c) ==
    /\ cl[c].pc = "delete"
    /\ rows' = Deleted(rows, cl[c].id)
    /\ cl' = [cl EXCEPT ![c].pc = "idle", ![c].resp = "200"]
    /\ UNCHANGED <<nextId, dbTz, subscriptions, ws, inbox, cr>>

\* delete: db.execute(dat) or db.commit() raises; the session is closed and the
\* transaction rolled back, the request is answered with a server error.
delete_store_fails(c) ==
    /\ cl[c].pc = "delete"
    /\ cl' = [cl EXCEPT ![c].pc = "idle", ![c].resp = "500", ![c].body = NoBody]
    /\ UNCHANGED <<rows, nextId, dbTz, subscriptions, ws, inbox, cr>>

----------------------------------------------------------------------------
(* Specification *)

SessionTimeZones == {0, 1}

NoCreate ==
    [pc |-> "idle", todo |-> <<>>, item |-> NoItem, id |-> 0,
     visited |-> {}, size |-> 0, resp |-> "none", err |-> "none"]

NoRequest ==
    [op |-> "none", pc |-> "idle", id |-> 0, item |-> NoItem, repeat |-> FALSE,
     resp |-> "none", body |-> NoBody]

Init ==
    /\ rows = [i \in {} |-> 0]
    /\ nextId = 1
    /\ dbTz \in SessionTimeZones
    /\ subscriptions = [u \in {} |-> {}]
    /\ ws = [h \in Handles |-> [state |-> "new", user |-> 0]]
    /\ inbox = [h \in Handles |-> <<>>]
    /\ cr = NoCreate
    /\ cl = [c \in Workers |-> NoRequest]

\* The websocket handlers.
RegistryNext ==
    \/ \E h \in Handles, u \in Users : websocket_connect(h, u)
    \/ \E h \in Handles : websocket_disconnect(h)

\* The Create request.
CreateNext ==
    \/ \E b \in Batches : create_request(b)
    \/ create_insert
    \/ create_store_fails
    \/ create_commit
    \/ send_data_to_subscribers

\* The Create request with a body of one item.
CreateOneNext ==
    \/ \E b \in Batches : Len(b) = 1 /\ create_request(b)
    \/ create_insert
    \/ create_store_fails
    \/ create_commit
    \/ send_data_to_subscribers

\* The requests served by worker threads.
StoreNext ==
    \/ \E c \in Clients, id \in Ids : read_processed_agent_data(c, id)
    \/ \E c \in Clients : list_processed_agent_data(c)
    \/ \E c \in Clients, id \in Ids, p \in Payloads : update_processed_agent_data(c, id, p)
    \/ \E c \in Clients : update_reselect(c)
    \/ \E c \in Clients, id \in Ids : delete_processed_agent_data(c, id)
    \/ \E c \in Clients : delete_commit(c)
    \/ \E c \in Clients, id \in Ids, p \in Payloads : update_store_fails(c, id, p)
    \/ \E c \in Clients : delete_store_fails(c)

Next == RegistryNext \/ CreateNext \/ StoreNext

Spec == Init /\ [][Next]_vars

\* Create requests with subscribers connecting and disconnecting.
FanoutSpec == Init /\ [][RegistryNext \/ CreateNext]_vars

\* Create requests with Read / List / Update / Delete requests.
CrudSpec == Init /\ [][CreateNext \/ StoreNext]_vars

\* A turn of the broadcast loop that does not wait for a peer: the loop ends or
\* raises.  A turn that sends completes only when the peer takes the message.
BroadcastTurnNoSend == send_data_to_subscribers /\ inbox' = inbox

\* The store responds to every statement, with a result or with an error; the
\* event loop runs the Create coroutine and the worker threads run.  Nothing
\* is assumed of the peers of the websockets.
Fairness ==
    /\ WF_vars(create_insert \/ create_commit \/ create_store_fails)
    /\ WF_vars(BroadcastTurnNoSend)
    /\ \A c \in Clients : WF_vars(update_reselect(c))
    /\ \A c \in Clients : WF_vars(delete_commit(c) \/ delete_store_fails(c))

\* Subscribers of user 1 and the requests of single records: Create bodies of
\* one item, and Read, List, Update and Delete requests for the first row.
LiveNext ==
    \/ \E h \in Handles : websocket_connect(h, 1)
    \/ \E h \in Handles : websocket_disconnect(h)
    \/ CreateOneNext
    \/ \E c \in Clients : read_processed_agent_data(c, 1)
    \/ \E c \in Clients : list_processed_agent_data(c)
    \/ \E c \in Clients, p \in GoodPayloads : update_processed_agent_data(c, 1, p)
    \/ \E c \in Clients : update_reselect(c)
    \/ \E c \in Clients : delete_processed_agent_data(c, 1)
    \/ \E c \in Clients : delete_commit(c)
    \/ \E c \in Clients, p \in GoodPayloads : update_store_fails(c, 1, p)
    \/ \E c \in Clients : delete_store_fails(c)

LiveSpec == Init /\ [][LiveNext]_vars /\ Fairness

\* Create requests with subscribers, and Read / List requests.
ReadbackNext ==
    \/ RegistryNext
    \/ CreateOneNext
    \/ \E c \in Clients, id \in Ids : read_processed_agent_data(c, id)
    \/ \E c \in Clients : list_processed_agent_data(c)

ReadbackSpec == Init /\ [][ReadbackNext]_vars

\* Update and Delete requests served by two worker threads at once.
RaceNext ==
    \/ \E c \in Workers, id \in Ids, p \in GoodPayloads : update_processed_agent_data(c, id, p)
    \/ \E c \in Workers : update_reselect(c)
    \/ \E c \in Workers, id \in Ids : delete_processed_agent_data(c, id)
    \/ \E c \in Workers : delete_commit(c)

\* Create requests with concurrent Update / Delete requests.
RaceSpec == Init /\ [][CreateOneNext \/ RaceNext]_vars

----------------------------------------------------------------------------
(* Properties *)

RegisteredIn(subs, u) == IF u \in DOMAIN subs THEN subs[u] ELSE {}

\* The JSON text of the stored record of `item` under `id`.
StoredRecordJson(item, id) ==
    JsonDumps(Dict(ProcessedAgentDataInDB(RowValues(item, id, dbTz)))).text

Received(box, item, id) == \E i \in DOMAIN box : box[i] = StoredRecordJson(item, id)

\* This step ends the broadcast of the current item of the Create request.
BroadcastEnds == cr.pc = "broadcast" /\ cr'.pc # "broadcast"

\* This step is a turn of the broadcast loop that raises.
BroadcastRaises == cr.pc = "broadcast" /\ cr'.pc = "idle" /\ cr'.resp = "500"

\* C1: fan-out correctness.  When the broadcast of a created record ends, every
\* websocket registered under the record's user id has received the record, and
\* no other websocket has.
C1_FanoutCorrectness ==
    [][BroadcastEnds =>
         \A h \in Handles :
            (h \in Registered(cr.item.user_id)) <=> Received(inbox'[h], cr.item, cr.id)]_vars

\* C2: when the broadcast of a created record ends, each subscriber under the
\* record's user id holds exactly one push for the new row, and that push is the
\* JSON text of the stored record (the submitted fields plus the assigned id).
C2_ExactlyOnePush ==
    [][BroadcastEnds =>
         \A h \in Registered(cr.item.user_id) :
            LET mine == { i \in DOMAIN inbox'[h] : inbox'[h][i].value.id = cr.id } IN
            /\ Cardinality(mine) = 1
            /\ \A i \in mine : inbox'[h][i] = StoredRecordJson(cr.item, cr.id)]_vars

\* C3: broadcast failure isolation.  When a turn of the broadcast over several
\* registered websockets fails, the failing websocket is removed from the
\* registry and every other websocket of that user id still gets the payload.
C3_FailureIsolation ==
    [][(BroadcastRaises /\ Cardinality(Registered(cr.item.user_id)) >= 2) =>
         \E f \in Registered(cr.item.user_id) :
            /\ f \notin RegisteredIn(subscriptions', cr.item.user_id)
            /\ \A k \in Registered(cr.item.user_id) \ {f} :
                  Received(inbox'[k], cr.item, cr.id)]_vars

\* C4: a delivery failure never surfaces to the caller of Create: a Create that
\* is answered with a server error failed in the store, not in the broadcast.
C4_DeliveryFailureHidden ==
    cr.resp = "500" => cr.err = "PersistenceError"

\* C5 (supporting observation): a broadcast is never suspended between two
\* sends, because no send is ever started: the encoding of the first payload
\* raises.  The interleavings C5 speaks of therefore do not occur.
BroadcastNeverSuspended == ~(cr.pc = "broadcast" /\ cr.visited # {})

\* C6: commit-before-broadcast.  The broadcast of an item is entered only by
\* the step that commits the item's row, which is then in the table as written;
\* and a subscriber receives a push only from the running broadcast, for the
\* row whose commit started it.
C6_CommitBeforeBroadcast ==
    [][/\ (cr'.pc = "broadcast" /\ cr.pc # "broadcast") =>
             /\ cr.pc = "commit"
             /\ cr'.id = cr.id /\ cr'.item = cr.item
             /\ cr.id \notin DOMAIN rows
             /\ cr.id \in DOMAIN rows'
             /\ rows'[cr.id] = RowValues(cr.item, cr.id, dbTz)
       /\ \A h \in Handles :
             inbox'[h] # inbox[h] =>
                /\ cr.pc = "broadcast"
                /\ inbox'[h] = Append(inbox[h], StoredRecordJson(cr.item, cr.id))]_vars

C6_Witness ==
    /\ cr.pc = "broadcast"
    /\ cr.id \in DOMAIN rows
    /\ Registered(cr.item.user_id) # {}

\* C7: disconnect cleanup.  The step that handles a disconnect removes the
\* websocket from its user's set, which shrinks by one; a disconnected
\* websocket is in no set, receives nothing more, and a broadcast for its
\* former user id with no connected subscriber left raises no error.
C7_DisconnectCleanup ==
    [][\A h \in Handles :
         LET u == ws[h].user IN
         /\ (ws[h].state = "open" /\ ws'[h].state = "closed") =>
               /\ h \notin RegisteredIn(subscriptions', u)
               /\ Cardinality(RegisteredIn(subscriptions', u)) = Cardinality(Registered(u)) - 1
         /\ ws[h].state = "closed" =>
               /\ h \notin Registered(u)
               /\ inbox'[h] = inbox[h]
               /\ (/\ cr.pc = "broadcast"
                   /\ cr.item.user_id = u
                   /\ \A k \in Handles : ws[k].state = "open" => ws[k].user # u)
                  => cr'.resp # "500"]_vars

\* A websocket has disconnected, and the running Create request has since
\* inserted, committed and broadcast an item for its former user id.
C7_Witness ==
    \E h \in Handles :
        /\ ws[h].state = "closed"
        /\ cr.pc = "insert"
        /\ cr.id \in DOMAIN rows
        /\ cr.item.user_id = ws[h].user

\* The fields of a stored record other than the assigned id.
WithoutId(r) ==
    [road_state |-> r.road_state, user_id |-> r.user_id,
     x |-> r.x, y |-> r.y, z |-> r.z,
     latitude |-> r.latitude, longitude |-> r.longitude,
     timestamp |-> r.timestamp]

\* C8: round trip.  Right after the commit of a created item d, Read of the
\* assigned id answers 200 with a record equal to d in every field but the id.
C8_RoundTrip ==
    [][(cr.pc = "commit" /\ cr'.pc = "broadcast") =>
         LET a == ReadAnswer(rows', cr.id) IN
         /\ a.resp = "200"
         /\ \A r \in a.body : WithoutId(r) = cr.item]_vars

\* C9: not-found boundary and delete finality.  A Read, Update (of a valid
\* record) or Delete that starts on an id with no row is answered 404, unless
\* the store itself fails; and
\* while a client's last answer is a successful Delete of an id, Read of that
\* id is answered 404.
C9_NotFoundBoundary ==
    [][\A c \in Clients :
         LET q == cl'[c] IN
         /\ (/\ cl[c].pc = "idle"
             /\ q # cl[c]
             /\ q.op \in {"read", "update", "delete"}
             /\ q.id \notin DOMAIN rows
             /\ q.resp \notin {"422", "500"})
            => (q.pc = "idle" /\ q.resp = "404")
         /\ (q.op = "delete" /\ q.resp = "200") => ReadAnswer(rows', q.id).resp = "404"]_vars

C9_Witness ==
    \E c \in Clients :
        /\ cl[c].op = "delete"
        /\ cl[c].resp = "200"
        /\ cl[c].id \notin DOMAIN rows
        /\ DOMAIN rows # {}

\* The constraints the validator is specified to enforce: road_state is a
\* non-empty string, the numbers are numbers, the timestamp is a date-time.
SchemaOk(p) == ProcessedAgentDataOk(p) /\ p.road_state.v # ""

C11_RoadStateNonEmpty ==
    [][/\ \A b \in Batches :
             (create_request(b) /\ \E i \in DOMAIN b : b[i] = EmptyStatePayload)
                => (cr'.resp = "422" /\ cr'.pc = "idle" /\ rows' = rows)
       /\ \A c \in Clients, id \in Ids :
             update_processed_agent_data(c, id, EmptyStatePayload)
                => (cl'[c].resp = "422" /\ cl'[c].pc = "idle" /\ rows' = rows)]_vars

\* The step writes row i: it inserts it or changes one of its fields.
Writes(i) == i \in DOMAIN rows' /\ (i \notin DOMAIN rows \/ rows'[i] # rows[i])

\* C12: stored-record invariant.  Every row is stored under its own id, so no
\* two rows share one; no step changes the id of an existing row; and a step
\* that writes a row is the commit of a Create or the write of an Update, after
\* which every field of the row but the id equals that request's payload.
C12_StoredRecordInvariant ==
    [][\A i \in DOMAIN rows' :
         /\ rows'[i].id = i
         /\ i \in DOMAIN rows => rows'[i].id = rows[i].id
         /\ Writes(i) =>
               \/ /\ cr.pc = "commit" /\ cr'.pc = "broadcast" /\ cr.id = i
                  /\ WithoutId(rows'[i]) = cr.item
               \/ \E c \in Clients :
                     /\ cl[c].pc = "idle" /\ cl'[c].pc = "reselect"
                     /\ cl'[c].op = "update" /\ cl'[c].id = i
                     /\ WithoutId(rows'[i]) = cl'[c].item]_vars

\* The row holds the fields of the validated record `item` under id i, the
\* timestamp as the DateTime column holds it.
HoldsRecord(row, item, i) ==
    /\ row.id = i
    /\ row.road_state = item.road_state /\ row.user_id = item.user_id
    /\ row.x = item.x /\ row.y = item.y /\ row.z = item.z
    /\ row.latitude = item.latitude /\ row.longitude = item.longitude
    /\ row.timestamp = StoreTimestamp(item.timestamp, dbTz)

\* C13: Update(id, record) on an existing id writes the record's road_state,
\* user_id, x, y, z, latitude, longitude and timestamp into the row with that
\* id and into no other, keeps the row's id and the set of rows, and answers
\* with the row as it is after the update.
C13_UpdateFrame ==
    [][\A c \in Clients :
         /\ \A id \in Ids, p \in Payloads :
               (/\ cl[c].pc = "idle" /\ cr' = cr
                /\ cl'[c].op = "update" /\ cl'[c].id = id /\ cl'[c].resp # "500"
                /\ cl'[c].pc = "reselect" => cl'[c].item = ProcessedAgentData(p)
                /\ ProcessedAgentDataOk(p) /\ id \in DOMAIN rows
                /\ update_processed_agent_data(c, id, p))
               => /\ DOMAIN rows' = DOMAIN rows
                  /\ HoldsRecord(rows'[id], ProcessedAgentData(p), id)
                  /\ \A j \in DOMAIN rows \ {id} : rows'[j] = rows[j]
                  /\ cl'[c].pc = "reselect"
         /\ (cl[c].pc = "reselect" /\ cl'[c] # cl[c])
               => /\ rows' = rows
                  /\ cl'[c].pc = "idle" /\ cl'[c].resp = "200"
                  /\ cl'[c].body = {rows[cl[c].id]}
                  /\ HoldsRecord(rows[cl[c].id], cl[c].item, cl[c].id)]_vars

\* An Update of row 1 with another user's record has been answered, and a
\* second row is stored.
C13_Witness ==
    \E c \in Clients :
        /\ cl[c].op = "update" /\ cl[c].pc = "idle" /\ cl[c].resp = "200"
        /\ cl[c].id = 1 /\ cl[c].item.user_id = 2
        /\ cl[c].body = {rows[1]}
        /\ 2 \in DOMAIN rows /\ rows[2].user_id = 1

\* C14: Delete(id) removes the row and returns the record as it existed
\* immediately before the deletion, whatever other requests do meanwhile: the
\* step that removes the row answers with the row it removes (so with the
\* updated one when an Update committed after Delete's read), and a Delete that
\* finds the row already removed by another Delete answers NotFound.
C14_DeleteReturnsLast ==
    [][\A c \in Workers :
         (cl[c].pc = "delete" /\ cl'[c].pc = "idle" /\ cl'[c].resp # "500") =>
            IF cl[c].id \in DOMAIN rows
            THEN /\ cl'[c].resp = "200"
                 /\ cl'[c].body = {ProcessedAgentDataInDB(rows[cl[c].id])}
                 /\ cl[c].id \notin DOMAIN rows'
            ELSE cl'[c].resp = "404"]_vars

\* C15: Update idempotence.  An Update(id, p) that repeats the Update this
\* client was last answered for leaves the table as the first one left it, and
\* is answered with the same stored record as the first.
C15_UpdateIdempotent ==
    [][\A c \in Clients :
         /\ \A id \in Ids, p \in Payloads :
               (/\ Repeats(cl[c], id, ProcessedAgentData(p))
                /\ update_processed_agent_data(c, id, p))
               => /\ rows' = rows
                  /\ cl'[c].pc = "reselect" /\ cl'[c].repeat
                  /\ ReadAnswer(rows', id).body = cl[c].body
         /\ (cl[c].pc = "reselect" /\ cl[c].repeat /\ cl'[c] # cl[c])
               => /\ rows' = rows
                  /\ cl'[c].resp = "200"
                  /\ cl'[c].body = ReadAnswer(rows, cl[c].id).body]_vars

\* The same Update has been applied twice in a row and answered both times.
C15_Witness ==
    \E c \in Clients :
        /\ cl[c].op = "update" /\ cl[c].pc = "idle" /\ cl[c].repeat
        /\ cl[c].resp = "200"
        /\ cl[c].body = {rows[cl[c].id]}

\* C16: with no websocket registered under the record's user id (the id was
\* never subscribed, or its set is empty after disconnects) the broadcast is a
\* silent no-op: nothing is sent, the registry is unchanged, no error is
\* raised, and the Create goes on to its next item or answers 200.
C16_BroadcastNoOp ==
    [][(cr.pc = "broadcast" /\ Registered(cr.item.user_id) = {} /\ cr' # cr) =>
         /\ inbox' = inbox
         /\ subscriptions' = subscriptions
         /\ cr'.err = "none" /\ cr'.resp # "500"
         /\ IF Len(cr.todo) > 1
            THEN cr'.pc = "insert" /\ cr'.todo = Tail(cr.todo)
            ELSE cr'.pc = "idle" /\ cr'.resp = "200"]_vars

\* A Create has inserted, committed and broadcast its first item, for a user
\* id whose set is in the registry and empty, and goes on to its second item.
C16_Witness ==
    /\ cr.pc = "insert" /\ Len(cr.todo) = 1
    /\ cr.id \in DOMAIN rows
    /\ cr.item.user_id \in DOMAIN subscriptions
    /\ subscriptions[cr.item.user_id] = {}

\* C17: write-failure atomicity.  When the store fails during the write of a
\* Create item, an Update or a Delete, the request is answered with a server
\* error and the table is as it was: the failing step changes no row, the
\* row of the failed insert is not in the table, and the insert that preceded
\* the failure had not changed the table either.
C17_WriteFailureAtomic ==
    [][/\ (cr.pc = "insert" /\ cr'.pc = "commit") => rows' = rows
       /\ (cr.pc \in {"insert", "commit"} /\ cr'.pc = "idle") =>
             /\ cr'.resp = "500" /\ cr'.err = "PersistenceError"
             /\ rows' = rows
             /\ cr.pc = "commit" => cr.id \notin DOMAIN rows'
       /\ \A c \in Clients :
             (cl'[c] # cl[c] /\ cl'[c].resp = "500") =>
                /\ cl'[c].op \in {"update", "delete"}
                /\ cl'[c].pc = "idle" /\ cl'[c].body = NoBody
                /\ rows' = rows]_vars

\* A Create has failed in the commit of an item, and a Delete of a stored row
\* has failed in its write.
C17_Witness ==
    /\ cr.pc = "idle" /\ cr.resp = "500" /\ cr.err = "PersistenceError"
    /\ cr.id > 0 /\ cr.id \notin DOMAIN rows
    /\ \E c \in Clients :
          /\ cl[c].op = "delete" /\ cl[c].resp = "500"
          /\ cl[c].id \in DOMAIN rows

\* C18: every Create, Read, List, Update and Delete request eventually
\* completes, provided the store responds, whatever the peers of the
\* websockets do; a websocket handler may stay in its receive loop forever.
C18_RequestsComplete ==
    /\ (cr.pc # "idle") ~> (cr.pc = "idle")
    /\ \A c \in Clients : (cl[c].pc # "idle") ~> (cl[c].pc = "idle")

\* A Create has completed while a websocket that has received nothing is open
\* under the created record's user id, and a Delete has completed.
C18_Witness ==
    /\ cr.pc = "idle" /\ cr.resp = "500" /\ cr.id \in DOMAIN rows
    /\ \E h \in Handles :
          ws[h].state = "open" /\ ws[h].user = cr.item.user_id /\ inbox[h] = <<>>
    /\ \E c \in Clients : cl[c].op = "delete" /\ cl[c].pc = "idle" /\ cl[c].resp = "200"

\* The Create request fails in this step: the error is raised to the caller,
\* no row is added or removed, and the items not yet done are never attempted.
CreateFails ==
    /\ cr'.pc = "idle" /\ cr'.resp = "500" /\ cr'.err # "none"
    /\ rows' = rows /\ nextId' = nextId
    /\ cr'.todo = cr.todo

\* C19: per-item commits in a batch Create.  The items are taken in list
\* order; each is inserted and committed alone, then broadcast, before the next
\* is taken; a failure in persisting or broadcasting an item ends the request
\* with the error, the rows committed before stay, and no later item is taken.
C19_PerItemCommits ==
    [][/\ \A i \in DOMAIN rows : i \in DOMAIN rows' /\ rows'[i] = rows[i]
       /\ (cr.pc = "insert" /\ cr' # cr) =>
             \/ /\ cr'.pc = "commit" /\ cr'.item = Head(cr.todo) /\ cr'.todo = cr.todo
                /\ rows' = rows
             \/ CreateFails
       /\ (cr.pc = "commit" /\ cr' # cr) =>
             \/ /\ cr'.pc = "broadcast" /\ cr'.todo = cr.todo
                /\ DOMAIN rows' = DOMAIN rows \cup {cr.id} /\ cr.id \notin DOMAIN rows
                /\ HoldsRecord(rows'[cr.id], Head(cr.todo), cr.id)
             \/ CreateFails
       /\ (cr.pc = "broadcast" /\ cr' # cr) =>
             \/ cr'.pc = "broadcast" /\ cr'.todo = cr.todo /\ rows' = rows
             \/ /\ Len(cr.todo) > 1
                /\ cr'.pc = "insert" /\ cr'.todo = Tail(cr.todo) /\ rows' = rows
             \/ /\ Len(cr.todo) = 1
                /\ cr'.pc = "idle" /\ cr'.resp = "200" /\ rows' = rows
             \/ CreateFails
       /\ (cr.pc = "idle" /\ cr' # cr) => (cr'.id = 0 /\ rows' = rows)]_vars

\* The first item of a batch is committed and broadcast, and the request has
\* failed in the insert of the second.
C19_Witness ==
    /\ cr.pc = "idle" /\ cr.resp = "500" /\ cr.err = "PersistenceError"
    /\ Len(cr.todo) = 1
    /\ cr.id \in DOMAIN rows
    /\ HoldsRecord(rows[cr.id], cr.item, cr.id)
    /\ nextId = cr.id + 1

\* C20: a broadcast failure does not undo the write.  The step in which the
\* broadcast raises leaves the committed row of the item in the table, and
\* while the Create stands answered with that error a Read of the row's id
\* answers 200 with the row and a List holds it.
C20_BroadcastFailureKeepsRow ==
    [][/\ BroadcastRaises =>
             /\ rows' = rows
             /\ cr.id \in DOMAIN rows'
             /\ HoldsRecord(rows'[cr.id], cr.item, cr.id)
       /\ \A c \in Clients :
             (/\ cr.pc = "idle" /\ cr.resp = "500" /\ cr.err = "TypeError"
              /\ cl'[c] # cl[c]) =>
                /\ (cl'[c].op = "read" /\ cl'[c].id = cr.id) =>
                      /\ cl'[c].resp = "200"
                      /\ \A r \in cl'[c].body : HoldsRecord(r, cr.item, cr.id)
                /\ cl'[c].op = "list" =>
                      \E r \in cl'[c].body : HoldsRecord(r, cr.item, cr.id)]_vars

\* The Create was answered with the broadcast's error, and a List holding its
\* row has been answered.
C20_Witness ==
    /\ cr.pc = "idle" /\ cr.resp = "500" /\ cr.err = "TypeError"
    /\ \E c \in Clients :
          /\ cl[c].op = "list" /\ cl[c].resp = "200"
          /\ \E r \in cl[c].body : HoldsRecord(r, cr.item, cr.id)

====
